---------------------------- MODULE Spec2Model ----------------------------
(***************************************************************************)
(* A model of src/util/primitives.js: Ray, Frustum and Aabb.               *)
(*                                                                         *)
(* Numbers.  A JavaScript number is modelled by its exact real value.  The *)
(* code only adds, multiplies, divides, compares and takes square roots,   *)
(* and within one call at most one irrational square root is live, so a    *)
(* number is a record [a, b, n] standing for  a + b * sqrt(n)  with a, b   *)
(* and n rationals <<numerator, denominator>>.  Rounding of IEEE doubles   *)
(* is not modelled.                                                        *)
(***************************************************************************)
EXTENDS Integers, Sequences, FiniteSets, TLC

VARIABLES
    ray,        \* the Ray instance: [pos, dir]
    args,       \* the arguments the caller passes to the next Ray query
    out,        \* the caller-supplied output buffer (a vec3)
    out0,       \* what the buffer held when the last query was entered
    ret,        \* the boolean the last Ray query returned
    locals,     \* the branch the last closestPointOnSphere took, its t and point
    op,         \* the last operation that ran ("none" before any)
    fargs,      \* the arguments of Frustum.fromInvProjectionMatrix
    frustum,    \* the Frustum instance: [points, planes]
    aabb,       \* the Aabb instance: [min, max, center]
    aabb0,      \* the Aabb as its constructor left it
    quads,      \* quads[i]: what quadrant(i) returned, for the indices called
    result      \* what Aabb.intersects returned (-1 before the call)

vars == <<ray, args, out, out0, ret, locals, op, fargs, frustum, aabb, aabb0, quads, result>>

rayVars == <<ray, args, out, out0, ret, locals>>
boxVars == <<fargs, frustum, aabb, aabb0, quads, result>>

---------------------------------------------------------------------------
(* Rationals <<p, q>> with q > 0, in lowest terms.                        *)
(* The arithmetic is written as functions, which TLC applies to evaluated  *)
(* arguments: a long computation is then evaluated step by step, as the    *)
(* program runs it.                                                        *)

IAbs(i) == IF i < 0 THEN -i ELSE i

RECURSIVE GCD(_, _)
GCD(x, y) == IF y = 0 THEN x ELSE GCD(y, x % y)

RatT == Int \X Int
RZero == <<0, 1>>
ROne == <<1, 1>>

RNF[x \in RatT] ==
    LET g == GCD(IAbs(x[1]), IAbs(x[2]))
    IN  IF x[2] < 0 THEN <<(-x[1]) \div g, (-x[2]) \div g>>
        ELSE <<x[1] \div g, x[2] \div g>>
RN(p, q) == RNF[<<p, q>>]

\* Sums and products cancel common factors before they multiply.
RAddF[x \in RatT, y \in RatT] ==
    LET g == GCD(x[2], y[2])
    IN  RNF[<<x[1] * (y[2] \div g) + y[1] * (x[2] \div g), (x[2] \div g) * y[2]>>]
RMulF[x \in RatT, y \in RatT] ==
    LET g1 == GCD(IAbs(x[1]), y[2])
        g2 == GCD(IAbs(y[1]), x[2])
    IN  RNF[<<(x[1] \div g1) * (y[1] \div g2), (x[2] \div g2) * (y[2] \div g1)>>]

RAdd(x, y) == RAddF[x, y]
RNeg(x)    == <<-x[1], x[2]>>
RSub(x, y) == RAddF[x, RNeg(y)]
RMul(x, y) == RMulF[x, y]
RInv(x)    == IF x[1] < 0 THEN <<-x[2], -x[1]>> ELSE <<x[2], x[1]>>
RDiv(x, y) == RMulF[x, RInv(y)]
RSign(x)   == IF x[1] > 0 THEN 1 ELSE IF x[1] < 0 THEN -1 ELSE 0
RLess(x, y) == RSign(RSub(x, y)) < 0

---------------------------------------------------------------------------
(* Numbers a + b*sqrt(n). *)

NumT == [a : RatT, b : RatT, n : RatT]

MkF[a \in RatT, b \in RatT, n \in RatT] ==
    IF b = RZero \/ n = RZero THEN [a |-> a, b |-> RZero, n |-> RZero]
    ELSE [a |-> a, b |-> b, n |-> n]
Mk(a, b, n) == MkF[a, b, n]

Q(p, q) == [a |-> RN(p, q), b |-> RZero, n |-> RZero]
I(i)    == [a |-> <<i, 1>>, b |-> RZero, n |-> RZero]

\* The radicand two operands share (one of them may be rational).
Rad(x, y) == IF x.b # RZero THEN x.n ELSE y.n

PlusF[x \in NumT, y \in NumT] ==
    IF x.b = RZero /\ y.b = RZero
    THEN [a |-> RAddF[x.a, y.a], b |-> RZero, n |-> RZero]
    ELSE MkF[RAddF[x.a, y.a], RAddF[x.b, y.b], Rad(x, y)]
NegF[x \in NumT] == [a |-> RNeg(x.a), b |-> RNeg(x.b), n |-> x.n]
TimesF[x \in NumT, y \in NumT] ==
    IF x.b = RZero /\ y.b = RZero
    THEN [a |-> RMulF[x.a, y.a], b |-> RZero, n |-> RZero]
    ELSE MkF[RAddF[RMulF[x.a, y.a], RMulF[RMulF[x.b, y.b], Rad(x, y)]],
             RAddF[RMulF[x.a, y.b], RMulF[x.b, y.a]], Rad(x, y)]

\* x / y: by a rational directly, else by the conjugate of y.
OverF[x \in NumT, y \in NumT] ==
    IF y.b = RZero THEN MkF[RDiv(x.a, y.a), RDiv(x.b, y.a), x.n]
    ELSE LET nrm == RSub(RMulF[y.a, y.a], RMulF[RMulF[y.b, y.b], Rad(x, y)])
             num == TimesF[x, [a |-> y.a, b |-> RNeg(y.b), n |-> y.n]]
         IN  MkF[RDiv(num.a, nrm), RDiv(num.b, nrm), Rad(x, y)]

\* -1, 0 or 1: the sign of a + b*sqrt(n).
SignF[x \in NumT] ==
    LET sa == RSign(x.a)
        sb == RSign(x.b)
        a2 == RMulF[x.a, x.a]
        b2n == RMulF[RMulF[x.b, x.b], x.n]
    IN  IF sb = 0 THEN sa
        ELSE IF sa = 0 \/ sa = sb THEN sb
        ELSE IF RLess(b2n, a2) THEN sa
        ELSE IF RLess(a2, b2n) THEN sb
        ELSE 0

AbsF[x \in NumT] == IF SignF[x] < 0 THEN NegF[x] ELSE x
MaxF[x \in NumT, y \in NumT] == IF SignF[PlusF[x, NegF[y]]] < 0 THEN y ELSE x
MinF[x \in NumT, y \in NumT] == IF SignF[PlusF[y, NegF[x]]] < 0 THEN y ELSE x

Plus(x, y)  == PlusF[x, y]
Neg(x)      == NegF[x]
Minus(x, y) == PlusF[x, NegF[y]]
Times(x, y) == TimesF[x, y]
Over(x, y)  == OverF[x, y]
Sign(x)     == SignF[x]
Abs(x)      == AbsF[x]
Max(x, y)   == MaxF[x, y]
Min(x, y)   == MinF[x, y]
Less(x, y)  == SignF[PlusF[x, NegF[y]]] < 0
Leq(x, y)   == SignF[PlusF[x, NegF[y]]] <= 0
Same(x, y)  == SignF[PlusF[x, NegF[y]]] = 0

\* Math.sqrt of a rational x >= 0.
Sqrt(x) == MkF[RZero, ROne, x.a]

---------------------------------------------------------------------------
(* gl-matrix vec3 / vec4, on tuples of numbers.  The vec3 functions read   *)
(* the first three components of whatever they are given.                  *)

V3(x, y, z) == <<I(x), I(y), I(z)>>
Zero3 == V3(0, 0, 0)
VecT == Seq(NumT)

DotF[u \in VecT, v \in VecT] ==
    Plus(Plus(Times(u[1], v[1]), Times(u[2], v[2])), Times(u[3], v[3]))
SubF[u \in VecT, v \in VecT] ==
    <<Minus(u[1], v[1]), Minus(u[2], v[2]), Minus(u[3], v[3])>>
AddF[u \in VecT, v \in VecT] ==
    <<Plus(u[1], v[1]), Plus(u[2], v[2]), Plus(u[3], v[3])>>
ScaleF[u \in VecT, k \in NumT] ==
    <<Times(u[1], k), Times(u[2], k), Times(u[3], k)>>
CrossF[u \in VecT, v \in VecT] ==
    <<Minus(Times(u[2], v[3]), Times(u[3], v[2])),
      Minus(Times(u[3], v[1]), Times(u[1], v[3])),
      Minus(Times(u[1], v[2]), Times(u[2], v[1]))>>

Dot(u, v)   == DotF[u, v]
Sub(u, v)   == SubF[u, v]
Add(u, v)   == AddF[u, v]
Scale(u, k) == ScaleF[u, k]
Cross(u, v) == CrossF[u, v]
Neg3(u)     == Scale(u, I(-1))
ScaleAndAdd(u, v, k) == Add(u, Scale(v, k))
SquaredLength(u) == Dot(u, u)
Length(u)   == Sqrt(SquaredLength(u))

\* vec3.normalize: the zero vector stays the zero vector.
Normalize(u) ==
    LET len == SquaredLength(u)
    IN  IF Sign(len) > 0 THEN Scale(u, Over(I(1), Sqrt(len))) ELSE Zero3

\* glMatrix.EPSILON
EPSILON == Q(1, 1000000)

\* vec3.equals: equality up to EPSILON, relative to the larger magnitude.
Equals(u, v) ==
    \A i \in 1..3 :
        Leq(Abs(Minus(u[i], v[i])), Times(EPSILON, Max(I(1), Max(Abs(u[i]), Abs(v[i])))))

SameVec(u, v) == \A i \in 1..3 : Same(u[i], v[i])

---------------------------------------------------------------------------
(* class Ray *)

NewRay(pos_, dir_) == [pos |-> pos_, dir |-> dir_]

\* The threshold under which intersectsPlane calls the ray parallel.
ParallelEps == Q(1, 1000000)

\* intersectsPlane testing D against exactly zero.
RayIntersectsPlane_ExactZero(this, pt, normal, buf) ==
    LET D == Dot(normal, this.dir)
    IN  IF Sign(D) = 0 THEN [ret |-> FALSE, out |-> buf]
        ELSE LET t == Over(Dot(Sub(pt, this.pos), normal), D)
                 intersection == ScaleAndAdd(this.pos, this.dir, t)
             IN  [ret |-> TRUE, out |-> intersection]

\* intersectsPlane clamping t at zero, as a query limited to the forward
\* half-line would.
RayIntersectsPlane_Forward(this, pt, normal, buf) ==
    LET D == Dot(normal, this.dir)
    IN  IF Less(Abs(D), ParallelEps) THEN [ret |-> FALSE, out |-> buf]
        ELSE LET t == Max(Over(Dot(Sub(pt, this.pos), normal), D), I(0))
                 intersection == ScaleAndAdd(this.pos, this.dir, t)
             IN  [ret |-> TRUE, out |-> intersection]

\* Ray.intersectsPlane: what it returns and what the caller's buffer holds.
RayIntersectsPlane(this, pt, normal, buf) ==
    LET D == Dot(normal, this.dir)
    IN  IF Less(Abs(D), ParallelEps) THEN [ret |-> FALSE, out |-> buf]
        ELSE LET t == Over(Dot(Sub(pt, this.pos), normal), D)
                 intersection == ScaleAndAdd(this.pos, this.dir, t)
             IN  [ret |-> TRUE, out |-> intersection]

\* The d < 0 branch of closestPointOnSphere.
SphereMiss(this, center, r, centerToP) ==
    LET negCenterToP == Scale(centerToP, I(-1))
        t == Max(Dot(negCenterToP, this.dir), I(0))
        pointOnRay == Add(this.pos, Scale(this.dir, t))
        pointToGlobe == Sub(center, pointOnRay)
        pointToGlobeLength == Length(pointToGlobe)
        scaled == Scale(pointToGlobe, Minus(I(1), Over(r, pointToGlobeLength)))
    IN  [ret |-> FALSE, out |-> Sub(Add(pointOnRay, scaled), center),
         branch |-> "miss", t |-> t, pointOnRay |-> pointOnRay]

\* The farther root of the quadratic.
NearRoot_Far(a, b, d) == Over(Plus(Neg(b), Sqrt(d)), Times(I(2), a))

\* The nearer root of the quadratic.
NearRoot(a, b, d) == Over(Minus(Neg(b), Sqrt(d)), Times(I(2), a))

\* The d >= 0 branch of closestPointOnSphere.
SphereHit(this, center, r, centerToP, a, b, d) ==
    LET t == NearRoot(a, b, d)
    IN  IF Less(t, I(0))
        THEN [ret |-> FALSE, out |-> Scale(centerToP, Over(r, Length(centerToP))),
              branch |-> "behind", t |-> t, pointOnRay |-> this.pos]
        ELSE LET dir == Scale(this.dir, t)
                 pos == Add(this.pos, dir)
             IN  [ret |-> TRUE, out |-> Sub(pos, center),
                  branch |-> "hit", t |-> t, pointOnRay |-> pos]

\* The early return: `out = [0, 0, 0]` rebinds the parameter to a new array,
\* so the array the caller passed is not written.
SphereDegenerate(this, buf) ==
    [ret |-> FALSE, out |-> buf, branch |-> "degenerate", t |-> I(0), pointOnRay |-> this.pos]

\* Ray.closestPointOnSphere, for dir of positive squared length and r >= 0.
RayClosestPointOnSphere(this, center, r, buf) ==
    IF Equals(this.pos, center) \/ Sign(r) = 0 THEN SphereDegenerate(this, buf)
    ELSE LET centerToP == Sub(this.pos, center)
             a == Dot(this.dir, this.dir)
             b == Times(I(2), Dot(centerToP, this.dir))
             c == Minus(Dot(centerToP, centerToP), Times(r, r))
             d == Minus(Times(b, b), Times(Times(I(4), a), c))
         IN  IF Less(d, I(0)) THEN SphereMiss(this, center, r, centerToP)
             ELSE SphereHit(this, center, r, centerToP, a, b, d)

---------------------------------------------------------------------------
(* class Frustum *)

NewFrustum(points_, planes_) == [points |-> points_, planes |-> planes_]

ClipSpaceCorners ==
    << <<I(-1), I(1),  I(-1), I(1)>>,
       <<I(1),  I(1),  I(-1), I(1)>>,
       <<I(1),  I(-1), I(-1), I(1)>>,
       <<I(-1), I(-1), I(-1), I(1)>>,
       <<I(-1), I(1),  I(1),  I(1)>>,
       <<I(1),  I(1),  I(1),  I(1)>>,
       <<I(1),  I(-1), I(1),  I(1)>>,
       <<I(-1), I(-1), I(1),  I(1)>> >>

\* The corner triples of near, far, left, right, bottom, top (0-based, as in
\* the source).
FrustumPlanePointIndices_Reversed ==
    << <<2, 1, 0>>, <<6, 5, 4>>, <<0, 3, 7>>, <<2, 1, 5>>, <<3, 2, 6>>, <<0, 4, 5>> >>

FrustumPlanePointIndices ==
    << <<0, 1, 2>>, <<6, 5, 4>>, <<0, 3, 7>>, <<2, 1, 5>>, <<3, 2, 6>>, <<0, 4, 5>> >>

\* vec4.transformMat4: m is column-major, m[c*4 + r + 1] here.
Row4F[v \in VecT, m \in VecT, r \in 1..4] ==
    Plus(Plus(Times(m[r], v[1]), Times(m[4 + r], v[2])),
         Plus(Times(m[8 + r], v[3]), Times(m[12 + r], v[4])))
TransformMat4(v, m) == <<Row4F[v, m, 1], Row4F[v, m, 2], Row4F[v, m, 3], Row4F[v, m, 4]>>

\* vec4.mul
Mul4F[u \in VecT, v \in VecT] ==
    <<Times(u[1], v[1]), Times(u[2], v[2]), Times(u[3], v[3]), Times(u[4], v[4])>>

\* Math.pow(2, zoom) for an integer zoom.
RECURSIVE Pow2(_)
Pow2(zoom) == IF zoom = 0 THEN I(1)
              ELSE IF zoom > 0 THEN Times(I(2), Pow2(zoom - 1))
              ELSE Over(Pow2(zoom + 1), I(2))

\* One clip-space corner taken to tile space.
FrustumCoord(v, invProj, worldSize, scale, zInMeters) ==
    LET s == TransformMat4(v, invProj)
        k == Times(Over(Over(I(1), s[4]), worldSize), scale)
    IN  Mul4F[s, <<k, k, IF zInMeters THEN Over(I(1), s[4]) ELSE k, k>>]

\* One plane <<nx, ny, nz, d>> from a triple of corner indices.
FrustumPlane(frustumCoords, p) ==
    LET a == Sub(frustumCoords[p[1] + 1], frustumCoords[p[2] + 1])
        b == Sub(frustumCoords[p[3] + 1], frustumCoords[p[2] + 1])
        n == Normalize(Cross(a, b))
        d == Neg(Dot(n, frustumCoords[p[2] + 1]))
    IN  <<n[1], n[2], n[3], d>>

\* Frustum.fromInvProjectionMatrix
FromInvProjectionMatrix(invProj, worldSize, zoom, zInMeters) ==
    LET scale == Pow2(zoom)
        frustumCoords ==
            [i \in 1..8 |->
                FrustumCoord(ClipSpaceCorners[i], invProj, worldSize, scale, zInMeters)]
        frustumPlanes ==
            [j \in 1..6 |-> FrustumPlane(frustumCoords, FrustumPlanePointIndices[j])]
    IN  NewFrustum(frustumCoords, frustumPlanes)

---------------------------------------------------------------------------
(* class Aabb *)

NewAabb(min_, max_) ==
    [min |-> min_, max |-> max_, center |-> Scale(Add(min_, max_), Q(1, 2))]

\* quadrant with the low and high halves of y exchanged.
AabbQuadrant_SwappedY(this, index) ==
    LET splitX == (index % 2) = 0
        splitY == index >= 2
        qMin == [this.min EXCEPT ![1] = IF splitX THEN this.min[1] ELSE this.center[1],
                                 ![2] = IF splitY THEN this.min[2] ELSE this.center[2]]
        qMax == [this.max EXCEPT ![1] = IF splitX THEN this.center[1] ELSE this.max[1],
                                 ![2] = IF splitY THEN this.center[2] ELSE this.max[2],
                                 ![3] = this.max[3]]
    IN  [this |-> this, ret |-> NewAabb(qMin, qMax)]

\* Aabb.quadrant: the parent after the call, and the child returned.
AabbQuadrant(this, index) ==
    LET splitX == (index % 2) = 0
        splitY == index < 2
        qMin == [this.min EXCEPT ![1] = IF splitX THEN this.min[1] ELSE this.center[1],
                                 ![2] = IF splitY THEN this.min[2] ELSE this.center[2]]
        qMax == [this.max EXCEPT ![1] = IF splitX THEN this.center[1] ELSE this.max[1],
                                 ![2] = IF splitY THEN this.center[2] ELSE this.max[2],
                                 ![3] = this.max[3]]
    IN  [this |-> this, ret |-> NewAabb(qMin, qMax)]

\* Aabb.getCorners
GetCorners(this) ==
    LET mn == this.min
        mx == this.max
    IN  << <<mn[1], mn[2], mn[3]>>,
           <<mx[1], mn[2], mn[3]>>,
           <<mx[1], mx[2], mn[3]>>,
           <<mn[1], mx[2], mn[3]>>,
           <<mn[1], mn[2], mx[3]>>,
           <<mx[1], mn[2], mx[3]>>,
           <<mx[1], mx[2], mx[3]>>,
           <<mn[1], mx[2], mx[3]>> >>

\* The inner loop with a strict test: a point on the plane is not counted.
PointsInside_Strict(plane, aabbPoints) ==
    Cardinality({i \in 1..Len(aabbPoints) :
                    Sign(Plus(Dot(plane, aabbPoints[i]), plane[4])) > 0})

\* The inner loop: how many of the points a plane has on its inside.
PointsInside(plane, aabbPoints) ==
    Cardinality({i \in 1..Len(aabbPoints) :
                    Sign(Plus(Dot(plane, aabbPoints[i]), plane[4])) >= 0})

\* The loop over the planes, from plane p on: whether some plane rejected
\* the box, and the fullyInside flag.
RECURSIVE PlaneLoop(_, _, _, _)
PlaneLoop(planes, aabbPoints, p, fullyInside) ==
    IF p > Len(planes) THEN [rejected |-> FALSE, fullyInside |-> fullyInside]
    ELSE LET pointsInside == PointsInside(planes[p], aabbPoints)
         IN  IF pointsInside = 0 THEN [rejected |-> TRUE, fullyInside |-> fullyInside]
             ELSE PlaneLoop(planes, aabbPoints, p + 1,
                            fullyInside /\ pointsInside = Len(aabbPoints))

\* projMin and projMax of the frustum points on an axis.  Number.MAX_VALUE
\* exceeds every coordinate, so the folds from +/-MAX_VALUE are the minimum
\* and the maximum over the points.
RECURSIVE ProjFold(_, _, _, _, _)
ProjFold(points, axis, lo, p, acc) ==
    IF p > Len(points) THEN acc
    ELSE LET projectedPoint == Minus(points[p][axis], lo)
         IN  ProjFold(points, axis, lo, p + 1,
                      IF p = 1 THEN [projMin |-> projectedPoint, projMax |-> projectedPoint]
                      ELSE [projMin |-> Min(acc.projMin, projectedPoint),
                            projMax |-> Max(acc.projMax, projectedPoint)])

\* The axis test with <= and >=: intervals that touch count as separated.
AxisSeparates_Touching(this, fru, axis) ==
    LET proj == ProjFold(fru.points, axis, this.min[axis], 1,
                         [projMin |-> I(0), projMax |-> I(0)])
    IN  \/ Leq(proj.projMax, I(0))
        \/ Leq(Minus(this.max[axis], this.min[axis]), proj.projMin)

\* The axis test comparing projMin with max instead of max - min.
AxisSeparates_AbsoluteMax(this, fru, axis) ==
    LET proj == ProjFold(fru.points, axis, this.min[axis], 1,
                         [projMin |-> I(0), projMax |-> I(0)])
    IN  \/ Less(proj.projMax, I(0))
        \/ Less(this.max[axis], proj.projMin)

\* The test on one world axis: TRUE when the axis separates the two.
AxisSeparates(this, fru, axis) ==
    LET proj == ProjFold(fru.points, axis, this.min[axis], 1,
                         [projMin |-> I(0), projMax |-> I(0)])
    IN  \/ Less(proj.projMax, I(0))
        \/ Less(Minus(this.max[axis], this.min[axis]), proj.projMin)

\* Aabb.intersects
AabbIntersects(this, fru) ==
    LET aabbPoints == GetCorners(this)
        loop == PlaneLoop(fru.planes, aabbPoints, 1, TRUE)
    IN  IF loop.rejected THEN 0
        ELSE IF loop.fullyInside THEN 2
        ELSE IF \E axis \in 1..3 : AxisSeparates(this, fru, axis) THEN 0
        ELSE 1

---------------------------------------------------------------------------
(* Inputs.  Coordinates are drawn from small grids; the plane query also   *)
(* gets directions and normals of length about 1e-3, whose dot products   *)
(* fall on either side of the 1e-6 threshold, and the sphere query gets a  *)
(* ray origin one unit from a center a million units out, where            *)
(* vec3.equals and exact equality part.                                    *)

MaxCoord == 1
MaxR == 2

Coords == (-MaxCoord)..MaxCoord
Grid3 == {V3(x, y, z) : x \in Coords, y \in Coords, z \in Coords}
Grid2 == {V3(x, y, 0) : x \in Coords, y \in Coords}
Buffers == {Zero3, V3(5, 5, 5)}
NoLocals == [branch |-> "none", t |-> I(0), pointOnRay |-> Zero3]
NoArgs == [none |-> TRUE]

PlaneDirs == {Scale(g, s) : g \in Grid3, s \in {I(1), Q(1, 1000), Q(1, 2000)}}
PlaneNormals == {V3(0, 0, 1), V3(1, 0, 0), V3(1, 1, 1),
                 <<I(0), I(0), Q(1, 1000)>>, <<Q(1, 1000), I(0), Q(1, 1000)>>}
PlanePos == {Zero3, V3(1, -1, 2), V3(0, 0, 5)}
PlanePts == {Zero3, V3(0, 0, 3), V3(1, 2, -1)}

FarPos == V3(1000000, 0, 0)
FarCenter == V3(1000001, 0, 0)
SphereSetups == {[pos |-> p, center |-> Zero3] : p \in Grid2}
                \cup {[pos |-> FarPos, center |-> FarCenter]}
SphereDirs == Grid3 \ {Zero3}
Radii == {I(k) : k \in 0..MaxR} \cup {Q(1, 2)}

\* The part of the state the Ray scenarios leave alone.
BoxIdle ==
    /\ fargs = NoArgs /\ frustum = NoArgs /\ aabb = NoArgs /\ aabb0 = NoArgs
    /\ quads = <<>> /\ result = -1

InitPlane ==
    /\ ray \in {NewRay(p, d) : p \in PlanePos, d \in PlaneDirs}
    /\ args \in {[pt |-> p, normal |-> n] : p \in PlanePts, n \in PlaneNormals}
    /\ out \in Buffers
    /\ out0 = out /\ ret = FALSE /\ locals = NoLocals /\ op = "none"
    /\ BoxIdle

InitSphere ==
    /\ \E s \in SphereSetups, d \in SphereDirs, r \in Radii :
          /\ ray = NewRay(s.pos, d)
          /\ args = [center |-> s.center, r |-> r]
    /\ out \in Buffers
    /\ out0 = out /\ ret = FALSE /\ locals = NoLocals /\ op = "none"
    /\ BoxIdle

\* A caller runs ray.intersectsPlane(pt, normal, out).
IntersectsPlane ==
    /\ "pt" \in DOMAIN args
    /\ \E res \in {RayIntersectsPlane(ray, args.pt, args.normal, out)} :
          /\ ret' = res.ret
          /\ out' = res.out
    /\ out0' = out
    /\ op' = "intersectsPlane"
    /\ UNCHANGED <<ray, args, locals>>
    /\ UNCHANGED boxVars

\* A caller runs ray.closestPointOnSphere(center, r, out).
ClosestPointOnSphere ==
    /\ "center" \in DOMAIN args
    /\ \E res \in {RayClosestPointOnSphere(ray, args.center, args.r, out)} :
          /\ ret' = res.ret
          /\ out' = res.out
          /\ locals' = [branch |-> res.branch, t |-> res.t, pointOnRay |-> res.pointOnRay]
    /\ out0' = out
    /\ op' = "closestPointOnSphere"
    /\ UNCHANGED <<ray, args>>
    /\ UNCHANGED boxVars

SpecPlane == InitPlane /\ [][IntersectsPlane]_vars
SpecSphere == InitSphere /\ [][ClosestPointOnSphere]_vars

---------------------------------------------------------------------------
(* The caller's camera.  invProj is the inverse of perspective * scale *   *)
(* translate, built as the camera code and the tests build it: a gl-matrix *)
(* perspective with fovy = 90 degrees and near = 1, optionally followed by *)
(* the flip of y (scale by [1, -1, 1]) and a translation along z.  All     *)
(* matrices are column-major 16-tuples.                                    *)

MaxBox == 2

Mat4MulF[A \in VecT, B \in VecT, c \in 0..3, r \in 1..4] ==
    Plus(Plus(Times(A[r], B[4 * c + 1]), Times(A[4 + r], B[4 * c + 2])),
         Plus(Times(A[8 + r], B[4 * c + 3]), Times(A[12 + r], B[4 * c + 4])))
Mat4Mul(A, B) == [i \in 1..16 |-> Mat4MulF[A, B, (i - 1) \div 4, ((i - 1) % 4) + 1]]

Identity4 == [i \in 1..16 |-> IF (i - 1) \div 4 = (i - 1) % 4 THEN I(1) ELSE I(0)]

\* mat4.perspective(out, PI/2, aspect, 1, far) and its inverse.
Perspective(aspect, far) ==
    [Identity4 EXCEPT ![1] = Over(I(1), I(aspect)),
                      ![11] = Over(I(far + 1), I(1 - far)),
                      ![12] = I(-1),
                      ![15] = Over(I(2 * far), I(1 - far)),
                      ![16] = I(0)]
PerspectiveInv(aspect, far) ==
    [Identity4 EXCEPT ![1] = I(aspect),
                      ![11] = I(0),
                      ![12] = Over(I(1 - far), I(2 * far)),
                      ![15] = I(-1),
                      ![16] = Over(I(far + 1), I(2 * far))]
\* mat4.scale by [1, -1, 1] (its own inverse) and mat4.translate by [0, 0, tz].
FlipY(flip) == [Identity4 EXCEPT ![6] = IF flip THEN I(-1) ELSE I(1)]
TranslateZ(tz) == [Identity4 EXCEPT ![15] = I(tz)]

Proj(cam) ==
    Mat4Mul(Mat4Mul(Perspective(cam.aspect, cam.far), FlipY(cam.flipY)), TranslateZ(cam.tz))
InvProj(cam) ==
    Mat4Mul(TranslateZ(-cam.tz), Mat4Mul(FlipY(cam.flipY), PerspectiveInv(cam.aspect, cam.far)))

Cameras == [aspect : {1, 2}, far : {2, 3}, flipY : BOOLEAN, tz : {0, 1}]
FrustumArgs(cams, sizes, zooms) ==
    {[invProj |-> InvProj(cam), worldSize |-> I(w), zoom |-> z, zInMeters |-> m, camera |-> cam] :
        cam \in cams, w \in sizes, z \in zooms, m \in BOOLEAN}

\* Boxes with min <= max on every axis.
Intervals(lo, hi) == {<<a, b>> \in (lo..hi) \X (lo..hi) : a <= b}
Boxes(xs, ys, zs) ==
    {NewAabb(V3(x[1], y[1], z[1]), V3(x[2], y[2], z[2])) : x \in xs, y \in ys, z \in zs}

\* The part of the state the Frustum and Aabb scenarios leave alone.
RayIdle ==
    /\ ray = NoArgs /\ args = NoArgs /\ out = Zero3 /\ out0 = Zero3
    /\ ret = FALSE /\ locals = NoLocals

InitFrustum ==
    /\ fargs \in FrustumArgs(Cameras, {1, 2}, {0, 1})
    /\ frustum = NoArgs /\ aabb = NoArgs /\ aabb0 = NoArgs
    /\ quads = <<>> /\ result = -1 /\ op = "none"
    /\ RayIdle

InitAabb ==
    /\ fargs \in FrustumArgs({c \in Cameras : c.aspect = 1 /\ c.far = 3 /\ c.tz = 0}, {1, 2}, {0})
    /\ frustum = NoArgs /\ aabb = NoArgs /\ aabb0 = NoArgs
    /\ quads = <<>> /\ result = -1 /\ op = "none"
    /\ RayIdle

InitQuadrant ==
    /\ fargs = NoArgs /\ frustum = NoArgs
    /\ aabb \in Boxes(Intervals(-MaxCoord, MaxCoord), Intervals(-MaxCoord, MaxCoord),
                      Intervals(-MaxCoord, MaxCoord))
    /\ aabb0 = aabb
    /\ quads = <<>> /\ result = -1 /\ op = "none"
    /\ RayIdle

\* The camera code runs Frustum.fromInvProjectionMatrix(invProj, worldSize, zoom, zInMeters).
BuildFrustum ==
    /\ "invProj" \in DOMAIN fargs
    /\ frustum = NoArgs
    /\ frustum' = FromInvProjectionMatrix(fargs.invProj, fargs.worldSize, fargs.zoom, fargs.zInMeters)
    /\ op' = "fromInvProjectionMatrix"
    /\ UNCHANGED <<fargs, aabb, aabb0, quads, result>>
    /\ UNCHANGED rayVars

\* The tile code makes a box to test against the frustum: new Aabb(min, max).
NewBox ==
    /\ "points" \in DOMAIN frustum
    /\ aabb = NoArgs
    /\ aabb' \in Boxes(Intervals(-MaxBox, MaxBox), {<<0, 0>>, <<-1, 1>>}, Intervals(-MaxBox, MaxBox))
    /\ aabb0' = aabb'
    /\ op' = "new Aabb"
    /\ UNCHANGED <<fargs, frustum, quads, result>>
    /\ UNCHANGED rayVars

\* A caller runs aabb.intersects(frustum).
Intersects ==
    /\ "points" \in DOMAIN frustum
    /\ "min" \in DOMAIN aabb
    /\ result = -1
    /\ result' = AabbIntersects(aabb, frustum)
    /\ op' = "intersects"
    /\ UNCHANGED <<fargs, frustum, aabb, aabb0, quads>>
    /\ UNCHANGED rayVars

\* A caller runs aabb.quadrant(index).
Quadrant ==
    /\ "min" \in DOMAIN aabb
    /\ \E index \in 0..3 :
          \E res \in {AabbQuadrant(aabb, index)} :
              /\ aabb' = res.this
              /\ quads' = (index :> res.ret) @@ quads
    /\ op' = "quadrant"
    /\ UNCHANGED <<fargs, frustum, aabb0, result>>
    /\ UNCHANGED rayVars

SpecFrustum == InitFrustum /\ [][BuildFrustum]_vars
SpecAabb == InitAabb /\ [][BuildFrustum \/ NewBox \/ Intersects]_vars
SpecQuadrant == InitQuadrant /\ [][Quadrant]_vars

Init == InitPlane \/ InitSphere \/ InitFrustum \/ InitAabb \/ InitQuadrant
Next == IntersectsPlane \/ ClosestPointOnSphere \/ BuildFrustum \/ NewBox \/ Intersects \/ Quadrant
Spec == Init /\ [][Next]_vars

\* The camera's invProj is the inverse of its projection matrix.
CameraIsInverse ==
    "invProj" \in DOMAIN fargs => Mat4Mul(fargs.invProj, Proj(fargs.camera)) = Identity4

---------------------------------------------------------------------------
(* Ray.intersectsPlane: the claims. *)

\* The quantities the claims name, from the call's inputs.
PlaneD == Dot(args.normal, ray.dir)
PlaneT == Over(Dot(Sub(args.pt, ray.pos), args.normal), PlaneD)
AfterPlane == op = "intersectsPlane"

\* C5: intersectsPlane returns false exactly when |dot(normal, dir)| < 1e-6,
\* and then the caller's buffer is as it was before the call; otherwise it
\* returns true.
C5_FalseIffParallel ==
    AfterPlane =>
        /\ (ret = FALSE) <=> Less(Abs(PlaneD), Q(1, 1000000))
        /\ (ret = FALSE) => out = out0

\* A call that failed on a small but nonzero dot product, over a buffer
\* that held (5, 5, 5).
C5_Witness ==
    /\ AfterPlane /\ ret = FALSE
    /\ Sign(PlaneD) # 0
    /\ out0 = V3(5, 5, 5) /\ out = out0

\* C6: when intersectsPlane returns true, out is pos + t*dir with
\* t = dot(point - pos, normal) / dot(normal, dir), a point of the plane
\* (dot(normal, out - point) = 0), whatever the sign of t.
C6_PointOnPlane ==
    (AfterPlane /\ ret = TRUE) =>
        /\ SameVec(out, Add(ray.pos, Scale(ray.dir, PlaneT)))
        /\ Sign(Dot(args.normal, Sub(out, args.pt))) = 0

\* A hit behind the ray origin (t < 0) whose point differs from the origin.
C6_Witness ==
    /\ AfterPlane /\ ret = TRUE
    /\ Less(PlaneT, I(0))
    /\ ~SameVec(out, ray.pos)

---------------------------------------------------------------------------
(* Ray.closestPointOnSphere: the claims. *)

AfterSphere == op = "closestPointOnSphere"
CenterToP == Sub(ray.pos, args.center)
QuadA == Dot(ray.dir, ray.dir)
QuadB == Times(I(2), Dot(CenterToP, ray.dir))
QuadC == Minus(Dot(CenterToP, CenterToP), Times(args.r, args.r))
Discriminant == Minus(Times(QuadB, QuadB), Times(Times(I(4), QuadA), QuadC))
RootT == Over(Minus(Neg(QuadB), Sqrt(Discriminant)), Times(I(2), QuadA))
OnSphere(v) == Same(SquaredLength(v), Times(args.r, args.r))

\* C4: called with pos equal to center or with r = 0, closestPointOnSphere
\* returns false and leaves the zero vector in the caller's buffer.
C4_ZeroWritten ==
    (AfterSphere /\ (SameVec(ray.pos, args.center) \/ Sign(args.r) = 0)) =>
        /\ ret = FALSE
        /\ out = Zero3

\* C7 as stated: closestPointOnSphere returns true exactly when pos # center,
\* r > 0, the discriminant is >= 0 and the nearer root t is >= 0; then out is
\* pos + t*dir - center and has squared length r^2.
C7_TrueExactly ==
    AfterSphere =>
        /\ (ret = TRUE) <=>
               /\ ~SameVec(ray.pos, args.center)
               /\ Sign(args.r) > 0
               /\ Sign(Discriminant) >= 0
               /\ Sign(RootT) >= 0
        /\ (ret = TRUE) =>
               /\ SameVec(out, Sub(Add(ray.pos, Scale(ray.dir, RootT)), args.center))
               /\ OnSphere(out)

\* C7 amended: the same with "pos # center" read as the code tests it, pos
\* and center not equal under vec3.equals (some component differs by more
\* than 1e-6 * max(1, |pos_i|, |center_i|)).
C7_TrueUnlessNearCenter ==
    AfterSphere =>
        /\ (ret = TRUE) <=>
               /\ ~Equals(ray.pos, args.center)
               /\ Sign(args.r) > 0
               /\ Sign(Discriminant) >= 0
               /\ Sign(RootT) >= 0
        /\ (ret = TRUE) =>
               /\ SameVec(out, Sub(Add(ray.pos, Scale(ray.dir, RootT)), args.center))
               /\ OnSphere(out)

\* A forward hit at t > 0 with an irrational root.
C7_Witness ==
    /\ AfterSphere /\ ret = TRUE
    /\ Sign(RootT) > 0
    /\ RootT.b # RZero
    /\ OnSphere(out)

\* The parameter of the point of the half-line {pos + s*dir : s >= 0}
\* nearest to the center.
NearestS == Max(Over(Dot(Neg3(CenterToP), ray.dir), QuadA), I(0))

\* C10: when the discriminant is negative, the point pos + t*dir the result
\* is derived from is the point of the half-line nearest to the center, for
\* any dir of positive squared length; out is the point of the sphere
\* surface in its direction, relative to the center, and the call returns
\* false.
C10_NearestOnHalfLine ==
    (AfterSphere /\ locals.branch = "miss") =>
        /\ ret = FALSE
        /\ SameVec(locals.pointOnRay, Add(ray.pos, Scale(ray.dir, NearestS)))
        /\ OnSphere(out)
        /\ SameVec(Scale(out, Length(Sub(locals.pointOnRay, args.center))),
                   Scale(Sub(locals.pointOnRay, args.center), args.r))

\* What does hold in that branch: the result is on the sphere, in the
\* direction of the point the code chose, and the point is the nearest one
\* when dir has unit length.
MissBranchHolds ==
    (AfterSphere /\ locals.branch = "miss") =>
        /\ ret = FALSE
        /\ OnSphere(out)
        /\ SameVec(Scale(out, Length(Sub(locals.pointOnRay, args.center))),
                   Scale(Sub(locals.pointOnRay, args.center), args.r))
        /\ Same(QuadA, I(1)) =>
               SameVec(locals.pointOnRay, Add(ray.pos, Scale(ray.dir, NearestS)))

---------------------------------------------------------------------------
(* Frustum.fromInvProjectionMatrix: the claim. *)

AfterFrustum == op = "fromInvProjectionMatrix"

\* dot(n, p) + d for a plane <<nx, ny, nz, d>>: its sign.
PlaneSide(plane, p) == Sign(Plus(Dot(plane, p), plane[4]))

\* The mean of the 8 corners.
CornerMean ==
    LET P == frustum.points
    IN  Scale(Add(Add(Add(P[1], P[2]), Add(P[3], P[4])), Add(Add(P[5], P[6]), Add(P[7], P[8]))),
              Q(1, 8))

\* The triples the claim names, and the corners of the face each plane is
\* named after (0-based): near, far, left, right, bottom, top.
ClaimedTriples ==
    << <<0, 1, 2>>, <<6, 5, 4>>, <<0, 3, 7>>, <<2, 1, 5>>, <<3, 2, 6>>, <<0, 4, 5>> >>
FaceCorners ==
    << {0, 1, 2, 3}, {4, 5, 6, 7}, {0, 3, 4, 7}, {1, 2, 5, 6}, {2, 3, 6, 7}, {0, 1, 4, 5} >>

\* Plane j is the plane of the claimed triple: a unit normal along
\* cross(c[p0] - c[p1], c[p2] - c[p1]), d = -dot(n, c[p1]), and the four
\* corners of the face it is named after lie on it.
PlanesAsClaimed ==
    /\ DOMAIN frustum.planes = 1..6
    /\ \A j \in 1..6 :
          LET pl == frustum.planes[j]
              n == <<pl[1], pl[2], pl[3]>>
              t == ClaimedTriples[j]
              c == [i \in 0..7 |-> frustum.points[i + 1]]
              x == Cross(Sub(c[t[1]], c[t[2]]), Sub(c[t[3]], c[t[2]]))
          IN  /\ Same(Dot(n, n), I(1))
              /\ Sign(Dot(n, x)) > 0
              /\ SameVec(Cross(n, x), Zero3)
              /\ Same(pl[4], Neg(Dot(n, c[t[2]])))
              /\ \A i \in FaceCorners[j] : PlaneSide(pl, c[i]) = 0

NormalsInward ==
    \A j \in 1..6 :
        /\ PlaneSide(frustum.planes[j], CornerMean) >= 0
        /\ \A i \in 1..8 : PlaneSide(frustum.planes[j], frustum.points[i]) >= 0

NormalsOutward ==
    \A j \in 1..6 :
        /\ PlaneSide(frustum.planes[j], CornerMean) < 0
        /\ \A i \in 1..8 : PlaneSide(frustum.planes[j], frustum.points[i]) <= 0

\* C8 as stated: for the inverse of any perspective projection (any
\* worldSize > 0, zoom, zInMeters) fromInvProjectionMatrix returns the planes
\* near, far, left, right, bottom, top of the claimed corner triples, and
\* every normal points to the interior: the mean of the corners and each
\* corner satisfy dot(n, p) + d >= 0 for every plane.
C8_NormalsInward ==
    AfterFrustum => (PlanesAsClaimed /\ NormalsInward)

\* C8 amended: the planes are those of the claimed triples for every such
\* invProj; the normals point to the interior when the projection carries
\* the camera's flip of y (perspective * scale [1, -1, 1]), and away from
\* it for the inverse of the plain gl-matrix perspective.
C8_InwardWhenFlipped ==
    AfterFrustum =>
        /\ PlanesAsClaimed
        /\ fargs.camera.flipY => NormalsInward
        /\ ~fargs.camera.flipY => NormalsOutward

\* A frustum of a flipped, translated camera with z in meters, whose corner
\* mean is strictly inside every plane.
C8_Witness ==
    /\ AfterFrustum
    /\ fargs.camera.flipY /\ fargs.camera.tz = 1 /\ fargs.zInMeters
    /\ fargs.camera.aspect = 2 /\ fargs.zoom = 1
    /\ \A j \in 1..6 : PlaneSide(frustum.planes[j], CornerMean) > 0

---------------------------------------------------------------------------
(* Aabb.intersects: the claims. *)

AfterIntersects == op = "intersects"

\* Corner k of the box, k in 0..7: bit 0 picks min.x or max.x, bit 1 y, bit 2 z.
BoxCorner(k) ==
    << IF k % 2 = 0 THEN aabb.min[1] ELSE aabb.max[1],
       IF (k \div 2) % 2 = 0 THEN aabb.min[2] ELSE aabb.max[2],
       IF k \div 4 = 0 THEN aabb.min[3] ELSE aabb.max[3] >>

\* How many of the 8 corners plane j has on its inside.
InsideCount(j) == Cardinality({k \in 0..7 : PlaneSide(frustum.planes[j], BoxCorner(k)) >= 0})

\* The frustum corners' coordinates on an axis, relative to the box's min.
Projected(axis) == {Minus(frustum.points[i][axis], aabb.min[axis]) : i \in 1..8}

\* The interval of Projected(axis) does not overlap [0, max - min].
SeparatedOn(axis) ==
    \/ \A x \in Projected(axis) : Less(x, I(0))
    \/ \A x \in Projected(axis) : Less(Minus(aabb.max[axis], aabb.min[axis]), x)

\* The two intervals share exactly an end point.
TouchingOn(axis) ==
    LET extent == Minus(aabb.max[axis], aabb.min[axis])
    IN  \/ /\ \A x \in Projected(axis) : Leq(x, I(0))
            /\ \E y \in Projected(axis) : Same(y, I(0))
        \/ /\ \A x \in Projected(axis) : Leq(extent, x)
            /\ \E y \in Projected(axis) : Same(y, extent)

\* C1: intersects returns 2 exactly when all 8 corners of the box satisfy
\* dot(normal, corner) + d >= 0 for all 6 planes, a corner on a plane
\* counting as inside; a box with a corner failing a plane never gives 2.
C1_TwoIffAllInside ==
    AfterIntersects => ((result = 2) <=> (\A j \in 1..6 : InsideCount(j) = 8))

\* A box of positive volume reported fully inside, with a corner lying on a
\* plane.
C1_Witness ==
    /\ AfterIntersects /\ result = 2
    /\ \A a \in 1..3 : Less(aabb.min[a], aabb.max[a])
    /\ \E j \in 1..6, k \in 0..7 : PlaneSide(frustum.planes[j], BoxCorner(k)) = 0

\* C2: intersects returns 0 exactly when (i) some plane has none of the 8
\* corners inside, or (ii) no plane has none, some plane has fewer than 8,
\* and on some world axis the frustum corners' interval relative to the
\* box's min does not overlap [0, max - min]; touching intervals overlap.
C2_ZeroExactly ==
    AfterIntersects =>
        ((result = 0) <=>
            \/ \E j \in 1..6 : InsideCount(j) = 0
            \/ /\ \A j \in 1..6 : InsideCount(j) > 0
               /\ \E j \in 1..6 : InsideCount(j) < 8
               /\ \E axis \in 1..3 : SeparatedOn(axis))

\* A box no plane rejects, reported outside because the x axis separates it
\* from the frustum.
C2_Witness ==
    /\ AfterIntersects /\ result = 0
    /\ \A j \in 1..6 : InsideCount(j) > 0
    /\ SeparatedOn(1) /\ ~SeparatedOn(2) /\ ~SeparatedOn(3)

\* A box that only touches the frustum's extent on an axis and is reported
\* as intersecting.
C2_TouchingReached ==
    /\ AfterIntersects /\ result = 1
    /\ \E axis \in 1..3 : TouchingOn(axis)

\* C3: against a frustum made by fromInvProjectionMatrix, a box with between
\* 1 and 7 corners inside exactly one plane and all 8 inside each of the
\* other five makes intersects return 1.
C3_StraddlingOneIsPartial ==
    (AfterIntersects /\
        \E j \in 1..6 : /\ InsideCount(j) \in 1..7
                        /\ \A i \in (1..6) \ {j} : InsideCount(i) = 8)
    => result = 1

\* A box of positive volume straddling the far plane only.
C3_Witness ==
    /\ AfterIntersects /\ result = 1
    /\ \A a \in 1..3 : Less(aabb.min[a], aabb.max[a])
    /\ InsideCount(2) \in 1..7
    /\ \A i \in (1..6) \ {2} : InsideCount(i) = 8

---------------------------------------------------------------------------
(* Aabb.quadrant: the claim. *)

AfterQuadrant == op = "quadrant"

\* An (x, y) rectangle as the record of its two intervals.
Rect(b) == [x0 |-> b.min[1], x1 |-> b.max[1], y0 |-> b.min[2], y1 |-> b.max[2]]
RectArea(r) == Times(Minus(r.x1, r.x0), Minus(r.y1, r.y0))
RectHas(r, x, y) == Leq(r.x0, x) /\ Leq(x, r.x1) /\ Leq(r.y0, y) /\ Leq(y, r.y1)
RectWithin(r, s) == Leq(s.x0, r.x0) /\ Leq(r.x1, s.x1) /\ Leq(s.y0, r.y0) /\ Leq(r.y1, s.y1)

\* The common part of two rectangles is empty or lies on the line x = cx or
\* on the line y = cy.
OverlapOnlyAt(r, s, cx, cy) ==
    LET x0 == Max(r.x0, s.x0)
        x1 == Min(r.x1, s.x1)
        y0 == Max(r.y0, s.y0)
        y1 == Min(r.y1, s.y1)
    IN  \/ Less(x1, x0) \/ Less(y1, y0)
        \/ Same(x0, cx) /\ Same(x1, cx)
        \/ Same(y0, cy) /\ Same(y1, cy)

\* Five points along an interval: the ends, the middle and the quarters.
Samples(lo, hi) == {Plus(lo, Times(Minus(hi, lo), Q(k, 4))) : k \in 0..4}

\* The children cover the parent's rectangle, stay within it, and have its
\* area between them.
ChildrenPartition ==
    LET parent == Rect(aabb0)
        child == [i \in 0..3 |-> Rect(quads[i])]
    IN  /\ \A i \in 0..3 : RectWithin(child[i], parent)
        /\ \A x \in Samples(parent.x0, parent.x1), y \in Samples(parent.y0, parent.y1) :
               \E i \in 0..3 : RectHas(child[i], x, y)
        /\ Same(Plus(Plus(RectArea(child[0]), RectArea(child[1])),
                     Plus(RectArea(child[2]), RectArea(child[3]))), RectArea(parent))
        /\ \A i \in 0..3, j \in 0..3 :
               i # j => OverlapOnlyAt(child[i], child[j], aabb0.center[1], aabb0.center[2])

\* C9: for a box with min <= max the four quadrants partition the parent's
\* (x, y) rectangle, overlapping only on edges at the parent's center; each
\* child has the parent's min.z and max.z; an even index gives the low-x
\* half [min.x, center.x] and an index below 2 the low-y half
\* [min.y, center.y]; the calls leave the parent's min, max and center as
\* they were.
C9_QuadrantsPartition ==
    AfterQuadrant =>
        /\ aabb = aabb0
        /\ SameVec(aabb.center, Scale(Add(aabb0.min, aabb0.max), Q(1, 2)))
        /\ \A i \in DOMAIN quads :
               /\ Same(quads[i].min[3], aabb0.min[3])
               /\ Same(quads[i].max[3], aabb0.max[3])
               /\ (i % 2 = 0) => /\ Same(quads[i].min[1], aabb0.min[1])
                                 /\ Same(quads[i].max[1], aabb0.center[1])
               /\ (i < 2) => /\ Same(quads[i].min[2], aabb0.min[2])
                             /\ Same(quads[i].max[2], aabb0.center[2])
        /\ (DOMAIN quads = 0..3) => ChildrenPartition

\* All four quadrants taken of a box of positive extent on every axis whose
\* center is not a grid point.
C9_Witness ==
    /\ AfterQuadrant
    /\ DOMAIN quads = 0..3
    /\ \A a \in 1..3 : Less(aabb0.min[a], aabb0.max[a])
    /\ aabb0.center[1].a[2] = 2 /\ aabb0.center[2].a[2] = 2

=============================================================================
